---- MODULE Spec2Model ----
(***************************************************************************)
(* One FFIO session of src/ffio/ffio.py: the Python wrapper around the     *)
(* native stream handle (CFFIO) and the c_lib.api_* gateway.               *)
(*                                                                         *)
(* The wrapper's code is modelled from src/ffio/ffio.py.  The gateway      *)
(* (libinterfaceAPI.so) has no source here; its outcomes are the Gw*       *)
(* definitions, taken from the gateway interface of the specification.     *)
(* A gateway call through a pointer whose structure api_deleteFFIO has     *)
(* already released is undefined behaviour: its outcome is any value of    *)
(* the call's return type, or the end of the process (crashed).            *)
(***************************************************************************)
EXTENDS Integers, Sequences, FiniteSets, TLC

\* ------------------------------------------------------------------ bounds

\* Frame operations are offered while both counters are below MaxFrames.
MaxFrames == 2
\* release_memory is offered at most MaxRelease times per session.
MaxRelease == 2

\* ------------------------------------------------------------------ values

\* self.width / self.height before any assignment: the class only annotates them.
NoAttr == -1

Modes == {0, 1}

\* ffio_state values the gateway may leave in the structure after api_initFFIO.
STATE_INIT    == 0
STATE_READY   == 1
STATE_READYHW == 2

\* Image geometries the gateway may negotiate, and the lengths of the byte
\* strings handed to encode_one_frame (one frame is 3 or 6 bytes).
Widths  == {1, 2}
Heights == {1}
Lens    == {0, 3, 4, 6}

\* Shared-memory descriptors of the constructor: none, or a region size.
NoShm == 0
ShmSizes == {6}

VARIABLES
  constructed,   \* FFIO.__init__ has run
  mode,          \* self.mode
  shm_enabled,   \* self.shm_enabled
  ptr,           \* what self._c_ffio_ptr points to: "null", "live", "freed"
  c_ffio,        \* the native CFFIO structure behind the pointer
  width,         \* self.width  (NoAttr while never assigned)
  height,        \* self.height (NoAttr while never assigned)
  frame_seq_py,  \* self.frame_seq_py
  last,          \* the last call on the session and what it did
  hist,          \* history of the session's gateway calls and results
  crashed        \* the process ended inside a gateway call

vars == <<constructed, mode, shm_enabled, ptr, c_ffio, width, height,
          frame_seq_py, last, hist, crashed>>

\* The CFFIO fields the wrapper or the gateway reads (struct CFFIO).
\* eof is the gateway's own stream position: end of stream or packet mismatch
\* has been reported.
NewCFFIO ==
  [ffio_state |-> STATE_INIT, ffio_mode |-> 0, frame_seq |-> 0, shm_enabled |-> FALSE,
   shm_size |-> 0, image_width |-> 0, image_height |-> 0, eof |-> FALSE]

\* The record kept of a call: its name, its result, the gateway calls it made
\* (frame operations, finalize, delete), the state it started from, the reads
\* the wrapper made through the pointer (`.contents`), the bytes it handed to
\* the gateway and the number of bytes the gateway wrote to shared memory.
NoCall ==
  [op |-> "none", ret |-> [kind |-> "none"], gw |-> 0, fin |-> 0, del |-> 0,
   ptr0 |-> "null", seq0 |-> 0, w0 |-> NoAttr, h0 |-> NoAttr, term0 |-> FALSE,
   arg |-> [kind |-> "none"], gwret |-> [kind |-> "none"],
   read |-> 0, pushed |-> [kind |-> "none"], wrote |-> 0]

\* nDelete, nFinalize: calls of api_deleteFFIO and api_finalizeFFIO on the handle;
\* nRelease: calls of release_memory; okAll: frame operations the gateway
\* completed; okDirect: decode_one_frame calls that returned a frame plus
\* encode_one_frame calls that returned True; allOk: every frame operation so far
\* was one of those; terminal: a decode_one_frame call returned -5 or -4;
\* initState: the ffio_state api_initFFIO reported; shmSize: the shm_size the
\* constructor was given (NoShm without shm_name).
NoHist ==
  [nDelete |-> 0, nFinalize |-> 0, nRelease |-> 0, okDirect |-> 0, okAll |-> 0,
   allOk |-> TRUE, terminal |-> FALSE, initState |-> STATE_INIT, shmSize |-> NoShm]

Init ==
  /\ constructed = FALSE
  /\ mode = 0
  /\ shm_enabled = FALSE
  /\ ptr = "null"
  /\ c_ffio = NewCFFIO
  /\ width = NoAttr
  /\ height = NoAttr
  /\ frame_seq_py = 0
  /\ last = NoCall
  /\ hist = NoHist
  /\ crashed = FALSE

\* ------------------------------------------------------------ the gateway
\* (external collaborator: open, pullFrame, pullFrameIntoShm, pushFrame,
\*  pushFrameFromShm, finalize, release)

\* ffio_state values api_initFFIO may leave: failure, Ready, and ReadyHW when
\* hardware acceleration was asked for.
GwInitStates(hw) ==
  IF hw THEN {STATE_INIT, STATE_READY, STATE_READYHW} ELSE {STATE_INIT, STATE_READY}

\* The structure after api_initFFIO: on success the negotiated geometry and the
\* shared-memory descriptor are recorded, on failure the structure stays as allocated.
GwOpened(m, st, w, h, shm) ==
  IF st \in {STATE_READY, STATE_READYHW}
  THEN [NewCFFIO EXCEPT !.ffio_state = st, !.ffio_mode = m,
                        !.image_width = w, !.image_height = h,
                        !.shm_enabled = (shm # NoShm), !.shm_size = shm]
  ELSE NewCFFIO

\* finalize(): the stream is closed and the structure reset.
GwFinalized(c) == NewCFFIO

\* What a read through a pointer to a released structure may see: the stale
\* fields, or other contents in the fields the wrapper reads (the allocator
\* reuses the head of a released block, where ffio_state and frame_seq lie).
FreedViews(c) ==
  {c, [c EXCEPT !.ffio_state = STATE_READYHW, !.frame_seq = 7]}

\* The byte size of one RGB frame.
FrameBytes(w, h) == w * h * 3

\* Integer codes pullFrame may return: end of stream, packet mismatch, others.
PullCodes == {-5, -4, -1, 0, 1}

Bytes(n) == [kind |-> "bytes", len |-> n]
IntRet(i) == [kind |-> "int", v |-> i]
BoolRet(b) == [kind |-> "bool", v |-> b]
Crash == [kind |-> "crash"]

\* A stream opened in mode 0 decodes, one opened in mode 1 encodes.
GwDecodes(c) == c.ffio_mode = 0
GwEncodes(c) == c.ffio_mode = 1

\* pullFrame() on a live handle: the next frame's bytes (exactly one frame, and
\* none once end of stream or packet mismatch was reported), or a code.
GwPullLive(c) ==
  (IF GwDecodes(c) /\ ~c.eof
   THEN {Bytes(FrameBytes(c.image_width, c.image_height))} ELSE {})
  \cup {IntRet(i) : i \in PullCodes}

\* pullFrame() through a pointer to a released structure: anything, or a crash.
GwPullFreed ==
  {Bytes(n) : n \in {3, 6}} \cup {IntRet(i) : i \in PullCodes} \cup {Crash}

\* The structure after a pull that returned r.
GwAfterPull(c, r) ==
  IF r.kind = "bytes" THEN [c EXCEPT !.frame_seq = @ + 1]
  ELSE IF r.kind = "int" /\ r.v \in {-5, -4} THEN [c EXCEPT !.eof = TRUE]
  ELSE c

\* pullFrameIntoShm(offset) on a live handle: true only when shared memory is
\* configured, the slot from offset has room for one frame and a frame is left.
GwShmRoom(c, offset) ==
  /\ c.shm_enabled
  /\ offset >= 0
  /\ c.shm_size - offset >= FrameBytes(c.image_width, c.image_height)

GwPullShmLive(c, offset) ==
  (IF GwDecodes(c) /\ GwShmRoom(c, offset) /\ ~c.eof THEN {BoolRet(TRUE)} ELSE {})
  \cup {BoolRet(FALSE)}

\* pushFrame(bytes) on a live handle: 0 on success, another code on failure.
GwPushLive(c, n) == (IF GwEncodes(c) THEN {IntRet(0)} ELSE {}) \cup {IntRet(-1)}

\* pushFrameFromShm(offset) on a live handle.
GwPushShmLive(c, offset) ==
  (IF GwEncodes(c) /\ GwShmRoom(c, offset) THEN {BoolRet(TRUE)} ELSE {})
  \cup {BoolRet(FALSE)}

\* The bytes pullFrameIntoShm writes to the region: one frame when it returns
\* true, none otherwise.
GwWroteLive(c, ok) == IF ok THEN {FrameBytes(c.image_width, c.image_height)} ELSE {0}

\* Through a pointer to a released structure: any write, or none.
GwWroteFreed == {0, 3}

GwBoolFreed == {BoolRet(TRUE), BoolRet(FALSE), Crash}
GwPushFreed == {IntRet(0), IntRet(-1), Crash}

\* The structure after a push or a shared-memory transfer that returned r.
GwAfterOk(c, ok) == IF ok THEN [c EXCEPT !.frame_seq = @ + 1] ELSE c

\* ---------------------------------------------------------- FFIO.__init__

\* `if self._c_ffio_ptr.contents.ffio_state == 1:  # succeeded`
InitSucceeded(c) == c.ffio_state = 1

Construct ==
  /\ ~constructed
  /\ ~crashed
  /\ \E m \in Modes, hw \in BOOLEAN, shm \in {NoShm} \cup ShmSizes,
        w \in Widths, h \in Heights :
       \E st \in GwInitStates(hw) :
         LET opened == GwOpened(m, st, w, h, shm) IN
         /\ constructed' = TRUE
         /\ mode' = m
         /\ frame_seq_py' = 0
         /\ shm_enabled' = (shm # NoShm)
         /\ IF InitSucceeded(opened)
            THEN /\ width' = opened.image_width
                 /\ height' = opened.image_height
                 /\ ptr' = "live"
                 /\ c_ffio' = opened
                 /\ hist' = [hist EXCEPT !.initState = st, !.shmSize = shm]
                 /\ last' = [NoCall EXCEPT !.op = "__init__", !.read = 1]
            ELSE /\ UNCHANGED <<width, height>>
                 /\ ptr' = "freed"
                 /\ c_ffio' \in FreedViews(opened)
                 /\ hist' = [hist EXCEPT !.initState = st, !.shmSize = shm, !.nDelete = @ + 1]
                 /\ last' = [NoCall EXCEPT !.op = "__init__", !.del = 1, !.read = 1]
  /\ UNCHANGED crashed

\* ------------------------------------------------------- the properties

\* FFIO.ffio_state: True for native state 1 or 2.
ffio_state == c_ffio.ffio_state = 1 \/ c_ffio.ffio_state = 2

\* FFIO.frame_seq_c
frame_seq_c == c_ffio.frame_seq

\* Reading a property is a read through self._c_ffio_ptr, whatever it points
\* to; through a pointer to a released structure the read may also end the
\* process.
ReadOutcomes(v) == IF ptr = "live" THEN {v} ELSE {v, Crash}

ReadFfioState ==
  /\ constructed
  /\ ~crashed
  /\ \E r \in ReadOutcomes(BoolRet(ffio_state)) :
       /\ last' = [NoCall EXCEPT !.op = "ffio_state", !.ret = r, !.read = 1,
                                 !.ptr0 = ptr, !.seq0 = frame_seq_py,
                                 !.w0 = width, !.h0 = height]
       /\ crashed' = (r = Crash)
  /\ UNCHANGED <<constructed, mode, shm_enabled, ptr, c_ffio, width, height,
                 frame_seq_py, hist>>

ReadFrameSeqC ==
  /\ constructed
  /\ ~crashed
  /\ \E r \in ReadOutcomes(IntRet(frame_seq_c)) :
       /\ last' = [NoCall EXCEPT !.op = "frame_seq_c", !.ret = r, !.read = 1,
                                 !.ptr0 = ptr, !.seq0 = frame_seq_py,
                                 !.w0 = width, !.h0 = height]
       /\ crashed' = (r = Crash)
  /\ UNCHANGED <<constructed, mode, shm_enabled, ptr, c_ffio, width, height,
                 frame_seq_py, hist>>

\* ------------------------------------------------------ FFIO.release_memory

\* api_finalizeFFIO then api_deleteFFIO, then the three attributes are reset.
\* Through a pointer to a released structure either call may end the process.
ReleaseOutcomes == IF ptr = "live" THEN {"done"} ELSE {"done", "crashFinalize", "crashDelete"}

ReleaseMemory ==
  /\ constructed
  /\ ~crashed
  /\ hist.nRelease < MaxRelease
  /\ \E out \in ReleaseOutcomes :
       LET dels == IF out = "crashFinalize" THEN 0 ELSE 1 IN
       /\ hist' = [hist EXCEPT !.nRelease = @ + 1, !.nFinalize = @ + 1,
                               !.nDelete = @ + dels]
       /\ last' = [NoCall EXCEPT !.op = "release_memory", !.fin = 1, !.del = dels,
                                 !.ptr0 = ptr, !.seq0 = frame_seq_py,
                                 !.w0 = width, !.h0 = height,
                                 !.ret = IF out = "done" THEN [kind |-> "none"] ELSE Crash]
       /\ IF out = "done"
          THEN /\ width' = 0
               /\ height' = 0
               /\ frame_seq_py' = 0
               /\ ptr' = "freed"
               /\ c_ffio' \in FreedViews(IF ptr = "live" THEN GwFinalized(c_ffio) ELSE c_ffio)
               /\ UNCHANGED crashed
          ELSE /\ crashed' = TRUE
               /\ UNCHANGED <<width, height, frame_seq_py, ptr, c_ffio>>
  /\ UNCHANGED <<constructed, mode, shm_enabled>>

\* ----------------------------------------------------- FFIO.decode_one_frame

\* The image_format tokens: the four the code names, and any other string.
Formats == {"None", "numpy", "Image", "base64", "other"}

Raise == [kind |-> "raise"]
PyNone == [kind |-> "None"]

\* np.reshape(np_buffer, (self.height, self.width, 3)) and
\* Image.frombytes("RGB", (self.width, self.height), ret) need both attributes
\* and a buffer of exactly one frame.
Reshapes(n, w, h) == w # NoAttr /\ h # NoAttr /\ n = h * w * 3

\* The presentation of the frame bytes, by image_format.
Present(ret, fmt, w, h) ==
  IF fmt = "None" THEN ret
  ELSE IF fmt = "numpy"
    THEN IF Reshapes(ret.len, w, h)
         THEN [kind |-> "ndarray", shape |-> <<h, w, 3>>, itemsize |-> 1] ELSE Raise
  ELSE IF fmt = "Image"
    THEN IF Reshapes(ret.len, w, h) THEN [kind |-> "Image", size |-> <<w, h>>] ELSE Raise
  ELSE IF fmt = "base64"
    THEN IF Reshapes(ret.len, w, h) THEN [kind |-> "base64"] ELSE Raise
  ELSE PyNone

\* A frame operation that forgets the increment.
BumpNone(seq) == seq

\* frame_seq_py += 1
Bump(seq) == seq + 1

\* What decode_one_frame returns for the gateway's ret.
DecodeReturn(ret, fmt, w, h) ==
  IF ret.kind = "bytes" THEN Present(ret, fmt, w, h)
  ELSE IF ret.kind = "int"
    THEN IF ret.v = -5 THEN IntRet(-5)
         ELSE IF ret.v = -4 THEN IntRet(-4)
         ELSE IntRet(1)
  ELSE PyNone

\* The local counter after decode_one_frame got ret from the gateway.
\* A decode that counted the call before looking at what the gateway gave.
DecodeSeqAlways(ret, seq) == Bump(seq)

DecodeSeq(ret, seq) == IF ret.kind = "bytes" THEN Bump(seq) ELSE seq

\* Calls of api_decodeOneFrame one decode_one_frame makes, given the gateway's
\* answer ret: the single call at the top of the method, whatever it answers.
DecodeCalls(ret) == 1

IsFrame(r) == r.kind \in {"bytes", "ndarray", "Image", "base64"}

\* Frame operations are offered on a constructed session of a running process,
\* within the model's bound on successful frame operations.
CanCall == constructed /\ ~crashed /\ hist.okAll < MaxFrames

\* The record of a frame operation that starts in the current state.
Call(name, a) ==
  [NoCall EXCEPT !.op = name, !.arg = a, !.ptr0 = ptr, !.seq0 = frame_seq_py,
                 !.w0 = width, !.h0 = height, !.term0 = hist.terminal]

\* The structure after a gateway call: as the gateway left it when live; the
\* released memory keeps the view taken when it was released.
AfterCall(c) == IF ptr = "live" THEN {c} ELSE {c_ffio}

DecodeOneFrame ==
  /\ CanCall
  /\ \E fmt \in Formats :
       \E ret \in (IF ptr = "live" THEN GwPullLive(c_ffio) ELSE GwPullFreed) :
         LET out == DecodeReturn(ret, fmt, width, height) IN
         IF ret = Crash
         THEN /\ crashed' = TRUE
              /\ last' = [Call("decode_one_frame", [kind |-> "format"]) EXCEPT
                            !.gw = DecodeCalls(ret), !.ret = Crash, !.gwret = ret]
              /\ UNCHANGED <<frame_seq_py, c_ffio, hist>>
         ELSE /\ frame_seq_py' = DecodeSeq(ret, frame_seq_py)
              /\ c_ffio' \in AfterCall(GwAfterPull(c_ffio, ret))
              /\ last' = [Call("decode_one_frame", [kind |-> "format"]) EXCEPT
                            !.gw = DecodeCalls(ret), !.ret = out, !.gwret = ret]
              /\ hist' = [hist EXCEPT
                            !.okDirect = IF IsFrame(out) THEN @ + 1 ELSE @,
                            !.allOk = @ /\ IsFrame(out),
                            !.okAll = IF ret.kind = "bytes" THEN @ + 1 ELSE @,
                            !.terminal = @ \/ out \in {IntRet(-5), IntRet(-4)}]
              /\ UNCHANGED crashed
  /\ UNCHANGED <<constructed, mode, shm_enabled, ptr, width, height>>

\* ---------------------------------------------- FFIO.decode_one_frame_to_shm

Offsets == {0, 3}

\* `return c_lib.api_decodeOneFrameToShm(self._c_ffio_ptr, offset)`
ShmSeq(ok, seq) == seq

\* Gateway calls one shared-memory operation makes, given the gateway's answer:
\* the method is the single call whose value it returns.
ShmCalls(ret) == 1

DecodeOneFrameToShm ==
  /\ CanCall
  /\ \E offset \in Offsets :
       \E ret \in (IF ptr = "live" THEN GwPullShmLive(c_ffio, offset) ELSE GwBoolFreed) :
         IF ret = Crash
         THEN /\ crashed' = TRUE
              /\ last' = [Call("decode_one_frame_to_shm", [kind |-> "offset", v |-> offset])
                            EXCEPT !.gw = ShmCalls(ret), !.ret = Crash, !.gwret = ret]
              /\ UNCHANGED <<frame_seq_py, c_ffio, hist>>
         ELSE /\ frame_seq_py' = ShmSeq(ret.v, frame_seq_py)
              /\ c_ffio' \in AfterCall(GwAfterOk(c_ffio, ret.v))
              /\ \E n \in (IF ptr = "live" THEN GwWroteLive(c_ffio, ret.v) ELSE GwWroteFreed) :
                   last' = [Call("decode_one_frame_to_shm", [kind |-> "offset", v |-> offset])
                              EXCEPT !.gw = ShmCalls(ret), !.ret = ret, !.gwret = ret, !.wrote = n]
              /\ hist' = [hist EXCEPT !.okAll = IF ret.v THEN @ + 1 ELSE @,
                                      !.allOk = FALSE]
              /\ UNCHANGED crashed
  /\ UNCHANGED <<constructed, mode, shm_enabled, ptr, width, height>>

\* ----------------------------------------------------- FFIO.encode_one_frame

\* Pixel arrays: shape (rows, columns, channels) and bytes per element.
Arrays ==
  {[kind |-> "ndarray", shape |-> sh, itemsize |-> k] :
     sh \in {<<1, 1, 3>>, <<1, 2, 3>>, <<2, 1, 3>>}, k \in {1}}
  \cup {[kind |-> "ndarray", shape |-> <<1, 1, 3>>, itemsize |-> 2]}

\* rgb_image.tobytes(): the elements in row-major order, itemsize bytes each.
ToBytes(a) == Bytes(a.shape[1] * a.shape[2] * a.shape[3] * a.itemsize)

EncodeInputs ==
  {Bytes(n) : n \in Lens} \cup Arrays \cup {[kind |-> "Image"], [kind |-> "other"]}

\* An encode that hands over one byte per element of an array, whatever the
\* element size.
EncodePushedFlat(img) ==
  IF img.kind = "bytes" THEN img
  ELSE IF img.kind = "ndarray" THEN Bytes(img.shape[1] * img.shape[2] * img.shape[3])
  ELSE PyNone

\* The bytes encode_one_frame hands to api_encodeOneFrame for an input, or
\* PyNone when it hands over nothing.
EncodePushed(img) ==
  IF img.kind = "bytes" THEN img
  ELSE IF img.kind = "ndarray" THEN ToBytes(img)
  ELSE PyNone

\* An encode that pushed an array in its own branch and again in the call it
\* makes on the array's bytes.
EncodeCallsTwice(img) ==
  IF img.kind = "bytes" THEN 1 ELSE IF img.kind = "ndarray" THEN 2 ELSE 0

\* Calls of api_encodeOneFrame one encode_one_frame(img) makes: one in the
\* bytes branch; the ndarray branch makes none itself and calls
\* encode_one_frame on the bytes; any other input reaches no call.
EncodeCalls(img) ==
  IF img.kind = "bytes" THEN 1 ELSE IF img.kind = "ndarray" THEN 1 ELSE 0

\* `if ret == 0: self.frame_seq_py += 1; return True` / `return False`
EncodeOk(ret) == ret.kind = "int" /\ ret.v = 0

EncodeSeq(ret, seq) == IF EncodeOk(ret) THEN Bump(seq) ELSE seq

\* Everything encode_one_frame(img) can do from the current state: the bytes
\* pushed, the gateway's answer, the calls made, the value returned and the
\* session counter afterwards.
EncodeResults(img) ==
  LET pushed == EncodePushed(img) IN
  IF pushed = PyNone
  THEN {[pushed |-> [kind |-> "none"], gwret |-> [kind |-> "none"],
         gw |-> EncodeCalls(img), ret |-> BoolRet(FALSE), seq |-> frame_seq_py]}
  ELSE {[pushed |-> pushed, gwret |-> r, gw |-> EncodeCalls(img),
         ret |-> IF r = Crash THEN Crash ELSE BoolRet(EncodeOk(r)),
         seq |-> IF r = Crash THEN frame_seq_py ELSE EncodeSeq(r, frame_seq_py)] :
          r \in (IF ptr = "live" THEN GwPushLive(c_ffio, pushed.len) ELSE GwPushFreed)}

EncodeOneFrame ==
  /\ CanCall
  /\ \E img \in EncodeInputs :
       \E o \in EncodeResults(img) :
         /\ last' = [Call("encode_one_frame", img) EXCEPT
                       !.gw = o.gw, !.ret = o.ret, !.gwret = o.gwret, !.pushed = o.pushed]
         /\ frame_seq_py' = o.seq
         /\ crashed' = (o.ret = Crash)
         /\ IF o.ret = Crash
            THEN UNCHANGED <<c_ffio, hist>>
            ELSE /\ c_ffio' \in AfterCall(GwAfterOk(c_ffio, o.ret.v))
                 /\ hist' = [hist EXCEPT
                               !.okDirect = IF o.ret.v THEN @ + 1 ELSE @,
                               !.allOk = @ /\ o.ret.v,
                               !.okAll = IF o.ret.v THEN @ + 1 ELSE @]
  /\ UNCHANGED <<constructed, mode, shm_enabled, ptr, width, height>>

\* -------------------------------------------- FFIO.encode_one_frame_from_shm

EncodeOneFrameFromShm ==
  /\ CanCall
  /\ \E offset \in Offsets :
       \E ret \in (IF ptr = "live" THEN GwPushShmLive(c_ffio, offset) ELSE GwBoolFreed) :
         IF ret = Crash
         THEN /\ crashed' = TRUE
              /\ last' = [Call("encode_one_frame_from_shm", [kind |-> "offset", v |-> offset])
                            EXCEPT !.gw = ShmCalls(ret), !.ret = Crash, !.gwret = ret]
              /\ UNCHANGED <<frame_seq_py, c_ffio, hist>>
         ELSE /\ frame_seq_py' = ShmSeq(ret.v, frame_seq_py)
              /\ c_ffio' \in AfterCall(GwAfterOk(c_ffio, ret.v))
              /\ last' = [Call("encode_one_frame_from_shm", [kind |-> "offset", v |-> offset])
                            EXCEPT !.gw = ShmCalls(ret), !.ret = ret, !.gwret = ret]
              /\ hist' = [hist EXCEPT !.okAll = IF ret.v THEN @ + 1 ELSE @,
                                      !.allOk = FALSE]
              /\ UNCHANGED crashed
  /\ UNCHANGED <<constructed, mode, shm_enabled, ptr, width, height>>

\* ------------------------------------------------------------ specification

Next ==
  \/ Construct
  \/ DecodeOneFrame
  \/ DecodeOneFrameToShm
  \/ EncodeOneFrame
  \/ EncodeOneFrameFromShm
  \/ ReleaseMemory
  \/ ReadFfioState
  \/ ReadFrameSeqC

Spec == Init /\ [][Next]_vars

\* ------------------------------------------------------------------ claims

FrameOps ==
  {"decode_one_frame", "decode_one_frame_to_shm", "encode_one_frame",
   "encode_one_frame_from_shm"}
ShmOps == {"decode_one_frame_to_shm", "encode_one_frame_from_shm"}

\* The session states of the state machine, as the last call found them.
\* Failed: api_initFFIO reported neither Ready nor ReadyHW.  Finalized:
\* release_memory has returned.  (A frame operation leaves both unchanged.)
FailedAtCall == hist.initState \notin {STATE_READY, STATE_READYHW}
FinalizedAtCall == hist.nRelease > 0
\* Ready, software path: initialised, never released, so the handle is live.
ReadyAtCall == last.ptr0 = "live"

NotReady == [kind |-> "NotReady"]

\* C1: in every state other than Ready/ReadyHW each of the four frame operations
\* fails with a NotReady outcome and makes no call to the gateway.
C1_NotReadyFailsFast ==
  (last.op \in FrameOps /\ (FailedAtCall \/ FinalizedAtCall))
    => (last.ret = NotReady /\ last.gw = 0)

\* C2: a second release_memory does not finalize or delete the handle again and
\* leaves width, height and the local frame counter at the values the first
\* call set (zero); stated for a session whose initialization succeeded.
C2_ReleaseIdempotent ==
  (last.op = "release_memory" /\ hist.nRelease >= 2 /\ hist.initState = STATE_READY)
    => /\ last.fin = 0
       /\ last.del = 0
       /\ width = 0
       /\ height = 0
       /\ frame_seq_py = 0

\* C3: over every sequence of operations on one session the handle that
\* api_newFFIO allocated is passed to api_deleteFFIO at most once.
C3_DeletedAtMostOnce == hist.nDelete <= 1

\* C4: whenever initialization ends in Ready (native state 1) or ReadyHW (native
\* state 2) the constructor records the gateway's width and height and keeps the
\* handle.
C4_ReadyKeepsHandle ==
  (last.op = "__init__" /\ hist.initState \in {STATE_READY, STATE_READYHW})
    => /\ ptr = "live"
       /\ last.del = 0
       /\ width = c_ffio.image_width
       /\ height = c_ffio.image_height

\* Whether the last call was a frame operation that succeeded.
Succeeded ==
  \/ last.op = "decode_one_frame" /\ IsFrame(last.ret)
  \/ last.op \in FrameOps \ {"decode_one_frame"} /\ last.ret = BoolRet(TRUE)

\* C5: after every successful frame operation on a ready session the local
\* counter frame_seq_py equals the native counter frame_seq_c.
C5_CountersAgree ==
  (ReadyAtCall /\ Succeeded) => frame_seq_py = frame_seq_c

\* C6: on a freshly initialized session, after N consecutive successful
\* decode_one_frame (or encode_one_frame) calls the local counter equals N, and
\* each successful call incremented it by exactly one.
C6_CounterCountsCalls ==
  /\ (constructed /\ hist.nRelease = 0 /\ hist.allOk) => frame_seq_py = hist.okDirect
  /\ (last.op \in {"decode_one_frame", "encode_one_frame"} /\ Succeeded)
       => frame_seq_py = last.seq0 + 1

\* C6 witness: MaxFrames consecutive successful decode_one_frame calls on a
\* ready session, and nothing else.
C6_Witness ==
  /\ ptr = "live"
  /\ hist.allOk
  /\ hist.okDirect = MaxFrames
  /\ last.op = "decode_one_frame"
  /\ IsFrame(last.ret)
  /\ frame_seq_py = MaxFrames

\* C7: a shared-memory frame operation that returns true increments the local
\* frame counter by one (stated for a ready session).
C7_ShmCallCounts ==
  (last.op \in ShmOps /\ ReadyAtCall /\ last.ret = BoolRet(TRUE))
    => frame_seq_py = last.seq0 + 1

\* C8: decode_one_frame turns every gateway outcome into one of four results:
\* a frame for bytes, -5 for -5, -4 for -4, and 1 for every other integer
\* (stated for a ready session, where the gateway's outcome is defined).
C8_DecodeClassifies ==
  (last.op = "decode_one_frame" /\ ReadyAtCall)
    => /\ last.gwret.kind = "bytes" => IsFrame(last.ret)
       /\ last.gwret.kind = "int" =>
            last.ret = (IF last.gwret.v \in {-5, -4} THEN last.gwret ELSE IntRet(1))

\* C9: once a decode_one_frame call has returned -5 or -4, no later
\* decode_one_frame call on the session returns a frame (stated for a session
\* whose initialization succeeded).
C9_TerminalSticks ==
  (last.op = "decode_one_frame" /\ last.term0 /\ hist.initState = STATE_READY)
    => ~IsFrame(last.ret)

\* Whether an input serializes to exactly the width*height*3 bytes of one frame
\* in the frame's layout.
OneFrame(img, w, h) ==
  /\ w # NoAttr
  /\ h # NoAttr
  /\ \/ img.kind = "bytes" /\ img.len = w * h * 3
     \/ img.kind = "ndarray" /\ img.shape = <<h, w, 3>> /\ img.itemsize = 1

\* C10: for every input that is not exactly one frame (bytes or an array of
\* another length or layout, an image object, anything else) encode_one_frame
\* returns False, pushes nothing to the gateway and leaves the counter
\* (stated for a ready session).
C10_RejectsOtherInput ==
  (last.op = "encode_one_frame" /\ ReadyAtCall /\ ~OneFrame(last.arg, last.w0, last.h0))
    => /\ last.ret = BoolRet(FALSE)
       /\ last.gw = 0
       /\ frame_seq_py = last.seq0

\* C11: after release_memory on a ready session the session's width, height,
\* frame_seq_py and frame_seq_c all read zero.
C11_ReleaseZeroes ==
  (last.op = "release_memory" /\ last.ptr0 = "live" /\ ~crashed)
    => /\ width = 0
       /\ height = 0
       /\ frame_seq_py = 0
       /\ frame_seq_c = 0

\* C12: while the session is not successfully initialized its width and height
\* are defined and zero; they are non-zero only after a successful
\* initialization.
C12_GeometryZeroUnlessReady ==
  /\ (constructed /\ FailedAtCall /\ hist.nRelease = 0) => (width = 0 /\ height = 0)
  /\ (width > 0 \/ height > 0) => hist.initState \in {STATE_READY, STATE_READYHW}

\* C13: decode_one_frame_to_shm(offset) returns False and writes no bytes
\* whenever the session has no shared memory or the room left in its slot,
\* shm_size - offset, is smaller than width*height*3 (stated for a session
\* whose initialization succeeded).
C13_ShmWriteInSlot ==
  (/\ last.op = "decode_one_frame_to_shm"
   /\ last.ret # Crash
   /\ hist.initState = STATE_READY
   /\ (~shm_enabled \/ hist.shmSize - last.arg.v < last.w0 * last.h0 * 3))
    => (last.ret = BoolRet(FALSE) /\ last.wrote = 0)

\* C14: a decode_one_frame that returns a failure code (-5, -4 or 1) or an
\* encode_one_frame that returns False leaves the session as it was: counter,
\* geometry and handle unchanged, nothing finalized or deleted.
C14_FailureChangesNothing ==
  (\/ (last.op = "decode_one_frame" /\ last.ret \in {IntRet(-5), IntRet(-4), IntRet(1)})
   \/ (last.op = "encode_one_frame" /\ last.ret = BoolRet(FALSE)))
    => /\ frame_seq_py = last.seq0
       /\ width = last.w0 /\ height = last.h0
       /\ ptr = last.ptr0
       /\ last.fin = 0 /\ last.del = 0

C14_Witness ==
  /\ last.op = "decode_one_frame" /\ last.ret = IntRet(-5)
  /\ last.ptr0 = "live" /\ last.seq0 = 1 /\ frame_seq_py = 1

\* C15: one call of a frame operation invokes its gateway operation at most
\* once; no frame operation retries.
C15_NoRetry == (last.op \in FrameOps) => last.gw <= 1

C15_Witness ==
  /\ last.op = "encode_one_frame" /\ last.arg.kind = "ndarray"
  /\ last.ptr0 = "live" /\ last.ret = BoolRet(FALSE) /\ last.gw = 1

\* C16: a decode_one_frame on a ready session that increments frame_seq_py
\* returns a frame, whatever image_format it was given.
C16_CountedFrameReturned ==
  (last.op = "decode_one_frame" /\ ReadyAtCall /\ frame_seq_py = last.seq0 + 1)
    => IsFrame(last.ret)

\* C17: reading the ffio_state or frame_seq_c property after the handle was
\* released does not dereference the released handle.
C17_NoUseAfterRelease ==
  (last.op \in {"ffio_state", "frame_seq_c"} /\ last.ptr0 = "freed") => last.read = 0

\* C18: in every session state, encode_one_frame(a) for an array a can do
\* exactly what encode_one_frame(a.tobytes()) can do: the same bytes pushed,
\* the same return values, the same counter afterwards, one gateway call.
C18_ArrayAsBytes ==
  constructed =>
    \A a \in Arrays :
      /\ ToBytes(a) \in EncodeInputs
      /\ EncodeResults(a) = EncodeResults(ToBytes(a))
      /\ \A o \in EncodeResults(a) : o.gw = 1 /\ o.seq \in {frame_seq_py, frame_seq_py + 1}

C18_Witness ==
  /\ last.op = "encode_one_frame" /\ last.arg.kind = "ndarray" /\ last.arg.itemsize = 2
  /\ last.pushed = Bytes(6) /\ last.ptr0 = "live"
  /\ last.ret = BoolRet(TRUE) /\ frame_seq_py = last.seq0 + 1

====
